---- MODULE Spec2Model ----
(***************************************************************************)
(* Click-to-call token server (src/main.ts): the /token route guarded by   *)
(* a signed session cookie and two fixed-window in-memory rate limiters    *)
(* (RateLimiterMemory of rate-limiter-flexible, imported at main.ts:17).   *)
(*                                                                         *)
(* A request handler is an async function: it runs atomically between its  *)
(* await points (one JavaScript event loop), so each action below is one   *)
(* run of the handler from one await to the next.  RateLimiterMemory's     *)
(* consume changes the limiter's storage synchronously inside the call and *)
(* hands back a promise that is already resolved or rejected; the handler  *)
(* reads it when it resumes.                                               *)
(*                                                                         *)
(* RateLimiterMemory is the fixed-window limiter of the package: a record  *)
(* per key holds the points consumed and the time it expires; consume adds *)
(* its point to a live record (or starts a fresh one that expires one      *)
(* duration later) and then rejects when the points consumed exceed the    *)
(* limiter's points.  A timer deletes the record when it expires.          *)
(*                                                                         *)
(* The module also holds the session check of the server's earlier        *)
(* revision (src/unnamed/part_003), as operators, and the page script      *)
(* (src/static/app.js) with its own next-state relation: the page's fetch  *)
(* of /token is answered by any status the server can give.                *)
(***************************************************************************)
EXTENDS Integers, Sequences, FiniteSets, TLC

\* ---------------------------------------------------------------- bounds
\* Requests the model follows from arrival to response.
MaxRequests == 4
\* Clicks on the Call button the model follows.
MaxClicks == 3
\* The same for SpecProgram: one more than PER_IP_DAILY_LIMIT, so that one
\* address can go past its daily limit.
ProgramRequests == 11
\* The same for SpecSession: two requests, which can be in flight together.
SessionRequests == 2
\* The seconds a session JWT of the earlier revision says it is valid for
\* (scaled, so that it runs out within MaxTime).
SessionTtl == 1
\* The same for SpecWindows, and the time its clock runs to: enough for two
\* full windows of the scaled configuration and calls past both limits.
WindowRequests == 6
WindowTime == 3
\* The clock runs from 0 to MaxTime (one unit = one second).
MaxTime == 2
\* The limiters' configuration in Spec, scaled down from the program's
\* (GLOBAL_CPS_LIMIT per GLOBAL_DURATION, PER_IP_DAILY_LIMIT per
\* PER_IP_DURATION) so that both limits and both window ends are reached
\* within MaxRequests requests and MaxTime seconds.  SpecProgram runs the same
\* actions from the program's own configuration.
SmallGlobalLimit == 2
SmallPerIPLimit == 2
SmallGlobalDuration == 1
SmallPerIPDuration == 2

\* ------------------------------------------------------ program constants
ACCESS_TOKEN_TTL == 2
GLOBAL_CPS_LIMIT == 5
PER_IP_DAILY_LIMIT == 10
\* The limiters' durations, in seconds: 1, and 60 * 60 * 24.
GLOBAL_DURATION == 1
PER_IP_DURATION == 86400

\* ------------------------------------------------------------ value sets
IPs == {"10.0.0.5", "10.0.0.9"}
GlobalKey == "global"
StorageKeys == IPs \cup {GlobalKey}
\* The handlers that can be in flight together, suspended at an await.
Handlers == {1, 2}

\* The server's cookie-signing key (Application keys) and any other key.
AppKey == "twilioApiSecret"
OtherKey == "attackerKey"

NoCookie == [absent |-> TRUE]
NoRecord == [absent |-> TRUE]
NoRes == [absent |-> TRUE]
NoBody == [absent |-> TRUE]
NoWindow == [absent |-> TRUE]
NoLog == [absent |-> TRUE]
Undefined == "undefined"

\* A session cookie as the browser sends it: the value and the signature
\* cookie ("session.sig"), which is a keyed digest of "session=<value>".
SignedCookie(value, key, data) == [value |-> value, sigKey |-> key, sigData |-> data]

VARIABLES
    now,            \* Date.now(), in seconds
    issuedCookies,  \* identities the server has set a signed session cookie for
    perIPLimiter,   \* [points, duration, storage]
    globalLimiter,  \* [points, duration, storage]
    req,            \* per request in flight: the handler's position and locals,
                    \* and the response
    served,         \* requests that have arrived so far
    budget,         \* requests the model follows (fixed by Init)
    horizon,        \* the time the clock runs to (fixed by Init)
    window,         \* history: per limiter and key, the fixed window as the times
                    \* and outcomes of the consume calls define it
    allowedAt       \* history: per limiter and key, the times of the consume calls
                    \* that resolved, in order; NoLog where Init keeps none

\* The browser client (src/static/app.js): the script's variables, the two
\* buttons, and what is pending in the page.
VARIABLES
    call,                       \* the call the End button ends: a call's number, or NoCall
    device,                     \* the Twilio.Device, named by the click whose makeCall
                                \* created it, or NoDevice
    microphonePermissionState,  \* '', 'granted', 'denied' or 'notFound'
    callButton,                 \* [hidden, disabled]
    endButton,                  \* [hidden]
    clicks,                     \* Call clicks so far
    click,                      \* per Call click: where its callButtonHandler is, and
                                \* what it has done
    calls                       \* per Call click: the Twilio.Call its connect gave

clientVars == <<call, device, microphonePermissionState, callButton, endButton,
                clicks, click, calls>>

serverVars == <<now, issuedCookies, perIPLimiter, globalLimiter, req, served, budget,
                horizon, window, allowedAt>>

vars == <<now, issuedCookies, perIPLimiter, globalLimiter, req, served, budget, horizon,
          window, allowedAt, clientVars>>

\* ------------------------------------------------------- session cookies
\* context.cookies.set('session', ip) with application keys: the cookie and its
\* signature under the application key.
CookiesSet(ip) == SignedCookie(ip, AppKey, ip)

\* The mutant of CookiesGet: the signature is not checked.
CookiesGetUnsigned(cookie) ==
    IF cookie = NoCookie THEN Undefined ELSE cookie.value

\* The mutant of CookiesGet: any value under a signature of the application key.
CookiesGetAnySigned(cookie) ==
    IF cookie = NoCookie THEN Undefined
    ELSE IF cookie.sigKey = AppKey THEN cookie.value
    ELSE Undefined

\* context.cookies.get('session') with application keys: the value when the
\* signature cookie is the digest of this value under the application key,
\* undefined otherwise (no cookie, no or wrong signature).
CookiesGet(cookie) ==
    IF cookie = NoCookie THEN Undefined
    ELSE IF cookie.sigKey = AppKey /\ cookie.sigData = cookie.value THEN cookie.value
    ELSE Undefined

\* What a client can send: nothing; a cookie the server issued; an issued
\* signature put on another value; any value signed with a key of its own.
PresentableCookies(ip) ==
    {NoCookie}
    \cup {SignedCookie(d, AppKey, d) : d \in issuedCookies}
    \cup {SignedCookie(ip, AppKey, d) : d \in issuedCookies}
    \cup {SignedCookie(ip, OtherKey, ip)}

\* ------------------------------- session cookies of the earlier revision
\* The earlier revision of the server (src/unnamed/part_003) keeps the session
\* in a JWT of its own making: createSessionCookie signs an AccessToken for the
\* identity, checkSessionCookie verifies signature and identity.
\*
\* A JWT as a string that parses: the claims, and the signature as a keyed
\* digest of the claims it was made for.  Garbled is a string that does not
\* parse as a JWT.
Jwt(identity, key, data) ==
    [kind |-> "jwt", grants |-> [identity |-> identity], sigKey |-> key, sigData |-> data]
Garbled == [kind |-> "garbled"]
Empty == [kind |-> "empty"]

\* AccessToken.toJwt() for the identity, signed with twilioApiSecret.
ToJwt(identity) == Jwt(identity, AppKey, identity)

\* The same JWT with the times AccessToken.toJwt() puts into it when it is
\* made at t: issued at, and expires.
ToJwtAt(identity, t) ==
    [kind |-> "jwt", grants |-> [identity |-> identity], sigKey |-> AppKey,
     sigData |-> identity, iat |-> t, exp |-> t + SessionTtl]

\* createSessionCookie: the Set-Cookie header, name and value.
createSessionCookie(identity) == [name |-> "session", value |-> ToJwt(identity)]

\* A Cookie request header of one cookie, and the request without the header.
CookieHeader(name, value) == [name |-> name, value |-> value]
NoHeader == [absent |-> TRUE]
NoMatch == [absent |-> TRUE]

\* (headers.get('Cookie') || '').match(/session=([^;]+)/): the value of the
\* session cookie when the header has one that is not empty.
SessionMatch(header) ==
    IF header = NoHeader THEN NoMatch
    ELSE IF header.name = "session" /\ header.value # Empty THEN header.value
    ELSE NoMatch

\* jwt.verify(token, secret, {ignoreExpiration: true}): the decoded claims, or
\* a throw for a string that is no JWT and for a signature that is not the
\* digest of these claims under the secret.
JwtVerify(token, secret) ==
    IF token.kind # "jwt" THEN [threw |-> TRUE]
    ELSE IF token.sigKey = secret /\ token.sigData = token.grants.identity
    THEN [threw |-> FALSE, decoded |-> [grants |-> token.grants]]
    ELSE [threw |-> TRUE]

\* The mutant of checkSessionCookie: no catch around the verification.
checkSessionCookieNoCatch(cookie, identity) ==
    LET v == JwtVerify(cookie, AppKey)
    IN  IF v.threw THEN [threw |-> TRUE, value |-> FALSE]
        ELSE [threw |-> FALSE, value |-> v.decoded.grants.identity = identity]

\* checkSessionCookie: what the call returns, and whether it threw instead.
checkSessionCookie(cookie, identity) ==
    LET v == JwtVerify(cookie, AppKey)
    IN  IF v.threw THEN [threw |-> FALSE, value |-> FALSE]
        ELSE [threw |-> FALSE, value |-> v.decoded.grants.identity = identity]

\* The /token handler of the earlier revision, which has no await: the
\* response, or the throw that leaves the handler.
LegacyToken(header, ip) ==
    LET match == SessionMatch(header)
        check == checkSessionCookie(match, ip)
    IN  IF match = NoMatch
        THEN [threw |-> FALSE, status |-> 401, body |-> [error |-> "Unauthorized"]]
        ELSE IF check.threw
        THEN [threw |-> TRUE, status |-> 0, body |-> NoBody]
        ELSE IF ~check.value
        THEN [threw |-> FALSE, status |-> 401, body |-> [error |-> "Unauthorized"]]
        ELSE [threw |-> FALSE, status |-> 200,
              body |-> [token |-> [identity |-> ip, ttl |-> ACCESS_TOKEN_TTL,
                                   grant |-> "voice"]]]

\* The session values a client can send to the earlier revision: a string
\* that is no JWT; a JWT the server issued; an issued signature on other
\* claims; claims signed with a key of the client's own.
LegacyPresentable(ip) ==
    {Garbled}
    \cup {ToJwt(d) : d \in issuedCookies}
    \cup {Jwt(ip, AppKey, d) : d \in issuedCookies}
    \cup {Jwt(ip, OtherKey, ip)}

\* The Cookie headers a client can send to the earlier revision.
LegacyHeaders(ip) ==
    {NoHeader, CookieHeader("theme", Garbled), CookieHeader("session", Empty)}
    \cup {CookieHeader("session", p) : p \in LegacyPresentable(ip)}

\* --------------------------------------------------- RateLimiterMemory
NewLimiter(points, duration) ==
    [points |-> points, duration |-> duration,
     storage |-> [k \in StorageKeys |-> NoRecord]]

\* The mutant of StorageSet: windows aligned to multiples of the duration.
StorageSetAligned(storage, key, value, duration, t) ==
    [storage EXCEPT ![key] = [value |-> value,
                              expiresAt |-> ((t \div duration) + 1) * duration]]

\* The mutant of StorageSet: the record expires one second early.
StorageSetExpiresEarly(storage, key, value, duration, t) ==
    [storage EXCEPT ![key] = [value |-> value, expiresAt |-> t + duration - 1]]

\* MemoryStorage.set: a fresh record that expires duration from now.
StorageSet(storage, key, value, duration, t) ==
    [storage EXCEPT ![key] = [value |-> value, expiresAt |-> t + duration]]

\* The mutant of Live: the expiry test the wrong way round.
LiveInverted(storage, key, t) ==
    /\ storage[key] # NoRecord
    /\ t - storage[key].expiresAt > 0

\* The mutant of Live: a record never expires.
LiveIgnoresExpiry(storage, key, t) == storage[key] # NoRecord

\* Whether the record of key is there and not yet expired at t.
Live(storage, key, t) ==
    /\ storage[key] # NoRecord
    /\ storage[key].expiresAt - t > 0

\* The mutant of StorageIncrby: every call restarts the record's lifetime.
StorageIncrbySliding(storage, key, value, duration, t) ==
    IF Live(storage, key, t)
    THEN [storage EXCEPT ![key] = [value |-> @.value + value,
                                   expiresAt |-> t + duration]]
    ELSE StorageSet(storage, key, value, duration, t)

\* MemoryStorage.incrby: add to a live record, else start a fresh one.
StorageIncrby(storage, key, value, duration, t) ==
    IF Live(storage, key, t)
    THEN [storage EXCEPT ![key].value = @ + value]
    ELSE StorageSet(storage, key, value, duration, t)

\* The mutant of ConsumeResolves: the limit test off by one.
ConsumeResolvesOffByOne(consumedPoints, points) == consumedPoints <= points + 1

\* The mutant of ConsumeResolves: the last point of the window is refused.
ConsumeResolvesStrict(consumedPoints, points) == consumedPoints < points

\* consume resolves when the points consumed in the window, this one counted,
\* do not exceed the limiter's points, and rejects otherwise.
ConsumeResolves(consumedPoints, points) == consumedPoints <= points

\* RateLimiterMemory.consume(key) at time t: the limiter afterwards and the
\* promise's outcome.  The point is added whether the promise resolves or not.
Consume(limiter, key, t) ==
    LET storage == StorageIncrby(limiter.storage, key, 1, limiter.duration, t)
        consumed == storage[key].value
    IN  [limiter |-> [limiter EXCEPT !.storage = storage],
         res |-> [resolved |-> ConsumeResolves(consumed, limiter.points),
                  consumedPoints |-> consumed,
                  remainingPoints |-> IF limiter.points - consumed > 0
                                      THEN limiter.points - consumed ELSE 0]]

\* ------------------------------------------------------- history windows
\* The fixed window of a key as the calls define it: the first call, and the
\* first call at or after the end of a window, starts a window; every call
\* counts as an attempt, a resolved one as allowed.  prevRejected keeps the
\* number of rejected calls of the window before.
WindowAfter(w, duration, t, allowed) ==
    IF w = NoWindow
    THEN [start |-> t, attempts |-> 1, allowed |-> IF allowed THEN 1 ELSE 0,
          prevRejected |-> 0]
    ELSE IF t >= w.start + duration
    THEN [start |-> t, attempts |-> 1, allowed |-> IF allowed THEN 1 ELSE 0,
          prevRejected |-> w.attempts - w.allowed]
    ELSE [w EXCEPT !.attempts = @ + 1,
                   !.allowed = IF allowed THEN @ + 1 ELSE @]

\* The log of resolved consume calls after a call on key of limiter l at t.
LogAfter(log, l, key, t, allowed) ==
    IF log = NoLog \/ ~allowed THEN log
    ELSE [log EXCEPT ![l][key] = Append(@, t)]

\* The log with no call in it.
EmptyLog == [l \in {"perIP", "global"} |-> [k \in StorageKeys |-> <<>>]]

\* ------------------------------------------------------------- the issuer
\* generateAccessToken: the JWT, as the claims it carries.
generateAccessToken(identity) ==
    [identity |-> identity, ttl |-> ACCESS_TOKEN_TTL, grant |-> "voice"]

\* ------------------------------------------------------------------ Init
\* status 0: not set.
NewRequest ==
    [pc |-> "new", ip |-> Undefined, cookie |-> NoCookie, session |-> Undefined,
     res |-> NoRes, status |-> 0, body |-> NoBody, trace |-> <<>>,
     issuerCalls |-> <<>>, ordinal |-> 0]

\* The page as loaded: the state readyToMakeCall resets the page to ("the
\* initial state", app.js:83-91), no device, no permission asked for yet.
NoCall == 0
NoDevice == 0
Clicks == 1..MaxClicks
NewClick == [pc |-> "idle", permission |-> "none", getUserMedia |-> FALSE,
             tokenRequest |-> FALSE, deviceCall |-> "none"]
NewCall == [state |-> "none", unsetting |-> 0]

InitClient ==
    /\ call = NoCall
    /\ device = NoDevice
    /\ microphonePermissionState = ""
    /\ callButton = [hidden |-> FALSE, disabled |-> FALSE]
    /\ endButton = [hidden |-> TRUE]
    /\ clicks = 0
    /\ click = [h \in Clicks |-> NewClick]
    /\ calls = [h \in Clicks |-> NewCall]

\* The server as it starts listening, with the two limiters as given, and a
\* page freshly loaded.
InitWith(perIP, global, requests, time, log) ==
    /\ InitClient
    /\ now = 0
    /\ budget = requests
    /\ horizon = time
    /\ allowedAt = log
    /\ issuedCookies = {}
    /\ perIPLimiter = perIP
    /\ globalLimiter = global
    /\ req = [r \in Handlers |-> NewRequest]
    /\ served = 0
    /\ window = [l \in {"perIP", "global"} |-> [k \in StorageKeys |-> NoWindow]]

Init ==
    InitWith(NewLimiter(SmallPerIPLimit, SmallPerIPDuration),
             NewLimiter(SmallGlobalLimit, SmallGlobalDuration), MaxRequests, MaxTime,
             NoLog)

\* The mutant of InitProgram: the per-IP limiter admits one call more a day.
InitProgramOneMore ==
    InitWith(NewLimiter(PER_IP_DAILY_LIMIT + 1, PER_IP_DURATION),
             NewLimiter(GLOBAL_CPS_LIMIT, GLOBAL_DURATION), ProgramRequests, MaxTime,
             NoLog)

InitProgram ==
    InitWith(NewLimiter(PER_IP_DAILY_LIMIT, PER_IP_DURATION),
             NewLimiter(GLOBAL_CPS_LIMIT, GLOBAL_DURATION), ProgramRequests, MaxTime,
             NoLog)

\* --------------------------------------------------------------- actions
\* GET /: set the session cookie for the caller's address.
Home(ip) ==
    /\ ip \notin issuedCookies
    /\ issuedCookies' = issuedCookies \cup {CookiesSet(ip).value}
    /\ UNCHANGED <<now, perIPLimiter, globalLimiter, req, served, window, allowedAt>>
    /\ UNCHANGED <<budget, horizon, clientVars>>

\* One call the handler made, and how it came out.
Event(name, ok) == [call |-> name, ok |-> ok]

\* The mutant of PerIPRejected: the catch block does not return.
PerIPRejectedFallsThrough(res) == FALSE

\* The catch of the per-IP consume: taken when the promise rejected.
PerIPRejected(res) == ~res.resolved

\* The mutant of GlobalRejected: the catch block does not return.
GlobalRejectedFallsThrough(res) == FALSE

\* The catch of the global consume: taken when the promise rejected.
GlobalRejected(res) == ~res.resolved

\* The mutant of GlobalConsumeKey: the caller's address as the key.
GlobalConsumeKeyPerCaller(ip) == ip

\* The key the handler consumes on the global limiter: one for all callers.
GlobalConsumeKey(ip) == GlobalKey

Unauthorized == [error |-> "You're not authorized to make calls."]
TooManyCalls == [error |-> "You've made too many calls, please try again tomorrow."]
\* The mutant of VeryBusy: the per-IP message for the global rejection too.
VeryBusySameMessage == [error |-> "You've made too many calls, please try again tomorrow."]
VeryBusy == [error |-> "Sorry, we're very busy. Please try again later."]

\* The browser's view of a response (static/app.js, makeCall): result.ok, and
\* the alert it shows for a response that is not ok.
ResultOk(status) == status >= 200 /\ status <= 299
MakeCallAlert(status) ==
    IF status = 401 THEN "Sorry, you're not authorized to make calls."
    ELSE IF status = 403 THEN "Sorry, you're on the naughty list and can't make calls."
    ELSE IF status = 429 THEN "Sorry, you've made too many calls. Plaease try again later."
    ELSE IF status = 503 THEN "Sorry, we're very busy right now. Please try again later."
    ELSE "Sorry, something went wrong. Please try again later."

\* The mutant of TokenStart: a session cookie is good for one request of its
\* address only.
TokenStartOneTimeProof(r, ip, cookie) ==
    /\ req[r].pc = "new"
    /\ \A q \in Handlers : q < r => req[q].pc # "new"
    /\ served < budget
    /\ served' = served + 1
    /\ LET session == IF window["perIP"][ip] # NoWindow THEN Undefined
                      ELSE CookiesGet(cookie)
           c == Consume(perIPLimiter, ip, now)
           w == WindowAfter(window["perIP"][ip], perIPLimiter.duration,
                            now, c.res.resolved)
       IN  IF session # ip
           THEN /\ req' = [req EXCEPT ![r].pc = "done", ![r].ip = ip,
                                      ![r].cookie = cookie, ![r].session = session,
                                      ![r].status = 401, ![r].body = Unauthorized,
                                      ![r].trace = <<Event("session", FALSE)>>]
                /\ UNCHANGED <<perIPLimiter, window, allowedAt>>
           ELSE /\ perIPLimiter' = c.limiter
                /\ window' = [window EXCEPT !["perIP"][ip] = w]
                /\ allowedAt' = LogAfter(allowedAt, "perIP", ip, now, c.res.resolved)
                /\ req' = [req EXCEPT ![r].pc = "perIP_consume", ![r].ip = ip,
                                      ![r].cookie = cookie, ![r].session = session,
                                      ![r].res = c.res,
                                      ![r].ordinal = w.attempts,
                                      ![r].trace = <<Event("session", TRUE),
                                                     Event("perIP", c.res.resolved)>>]
    /\ UNCHANGED <<now, issuedCookies, globalLimiter>>
    /\ UNCHANGED <<budget, horizon, clientVars>>

\* GET /token from ip with cookie: the handler awaits cookies.get and resumes
\* with the session value: 401, or the per-IP consume.  (Arrival and
\* resumption are one step: before it resumes the handler has touched nothing
\* another handler reads.)
TokenStart(r, ip, cookie) ==
    /\ req[r].pc = "new"
    /\ \A q \in Handlers : q < r => req[q].pc # "new"
    /\ served < budget
    /\ served' = served + 1
    /\ LET session == CookiesGet(cookie)
           c == Consume(perIPLimiter, ip, now)
           w == WindowAfter(window["perIP"][ip], perIPLimiter.duration,
                            now, c.res.resolved)
       IN  IF session # ip
           THEN /\ req' = [req EXCEPT ![r].pc = "done", ![r].ip = ip,
                                      ![r].cookie = cookie, ![r].session = session,
                                      ![r].status = 401, ![r].body = Unauthorized,
                                      ![r].trace = <<Event("session", FALSE)>>]
                /\ UNCHANGED <<perIPLimiter, window, allowedAt>>
           ELSE /\ perIPLimiter' = c.limiter
                /\ window' = [window EXCEPT !["perIP"][ip] = w]
                /\ allowedAt' = LogAfter(allowedAt, "perIP", ip, now, c.res.resolved)
                /\ req' = [req EXCEPT ![r].pc = "perIP_consume", ![r].ip = ip,
                                      ![r].cookie = cookie, ![r].session = session,
                                      ![r].res = c.res,
                                      ![r].ordinal = w.attempts,
                                      ![r].trace = <<Event("session", TRUE),
                                                     Event("perIP", c.res.resolved)>>]
    /\ UNCHANGED <<now, issuedCookies, globalLimiter>>
    /\ UNCHANGED <<budget, horizon, clientVars>>

\* The mutant of TokenAfterPerIP: one limiter instance serves both tiers, the
\* global consume being a call on the per-IP limiter with the global key.
TokenAfterPerIPOneInstance(r) ==
    /\ req[r].pc = "perIP_consume"
    /\ LET c == Consume(perIPLimiter, GlobalConsumeKey(req[r].ip), now)
           w == WindowAfter(window["global"][GlobalKey], globalLimiter.duration,
                            now, c.res.resolved)
       IN  IF PerIPRejected(req[r].res)
           THEN /\ req' = [req EXCEPT ![r].pc = "done", ![r].res = NoRes,
                                      ![r].ordinal = 0,
                                      ![r].status = 429, ![r].body = TooManyCalls]
                /\ UNCHANGED <<perIPLimiter, window, allowedAt>>
           ELSE /\ perIPLimiter' = c.limiter
                /\ window' = [window EXCEPT !["global"][GlobalKey] = w]
                /\ allowedAt' = LogAfter(allowedAt, "global", GlobalKey, now,
                                         c.res.resolved)
                /\ req' = [req EXCEPT ![r].pc = "global_consume",
                                      ![r].res = c.res,
                                      ![r].ordinal = w.attempts,
                                      ![r].trace = Append(@, Event("global", c.res.resolved))]
    /\ UNCHANGED <<now, issuedCookies, globalLimiter, served>>
    /\ UNCHANGED <<budget, horizon, clientVars>>

\* The mutant of TokenAfterPerIP: a rejected per-IP consume is tried once more
\* before the handler gives up.
TokenAfterPerIPRetries(r) ==
    /\ req[r].pc = "perIP_consume"
    /\ LET c == Consume(globalLimiter, GlobalConsumeKey(req[r].ip), now)
           w == WindowAfter(window["global"][GlobalKey], globalLimiter.duration,
                            now, c.res.resolved)
           again == Consume(perIPLimiter, req[r].ip, now)
       IN  IF PerIPRejected(req[r].res) /\ Len(req[r].trace) < 3
           THEN /\ perIPLimiter' = again.limiter
                /\ req' = [req EXCEPT ![r].res = again.res,
                                      ![r].trace = Append(@, Event("perIP",
                                                                   again.res.resolved))]
                /\ UNCHANGED <<globalLimiter, window, allowedAt>>
           ELSE IF PerIPRejected(req[r].res)
           THEN /\ req' = [req EXCEPT ![r].pc = "done", ![r].res = NoRes,
                                      ![r].ordinal = 0,
                                      ![r].status = 429, ![r].body = TooManyCalls]
                /\ UNCHANGED <<perIPLimiter, globalLimiter, window, allowedAt>>
           ELSE /\ globalLimiter' = c.limiter
                /\ window' = [window EXCEPT !["global"][GlobalKey] = w]
                /\ allowedAt' = LogAfter(allowedAt, "global", GlobalKey, now,
                                         c.res.resolved)
                /\ req' = [req EXCEPT ![r].pc = "global_consume",
                                      ![r].res = c.res,
                                      ![r].ordinal = w.attempts,
                                      ![r].trace = Append(@, Event("global", c.res.resolved))]
                /\ UNCHANGED perIPLimiter
    /\ UNCHANGED <<now, issuedCookies, served>>
    /\ UNCHANGED <<budget, horizon, clientVars>>

\* The handler resumes with the per-IP outcome: 429, or the global consume.
TokenAfterPerIP(r) ==
    /\ req[r].pc = "perIP_consume"
    /\ LET c == Consume(globalLimiter, GlobalConsumeKey(req[r].ip), now)
           w == WindowAfter(window["global"][GlobalKey], globalLimiter.duration,
                            now, c.res.resolved)
       IN  IF PerIPRejected(req[r].res)
           THEN /\ req' = [req EXCEPT ![r].pc = "done", ![r].res = NoRes,
                                      ![r].ordinal = 0,
                                      ![r].status = 429, ![r].body = TooManyCalls]
                /\ UNCHANGED <<globalLimiter, window, allowedAt>>
           ELSE /\ globalLimiter' = c.limiter
                /\ window' = [window EXCEPT !["global"][GlobalKey] = w]
                /\ allowedAt' = LogAfter(allowedAt, "global", GlobalKey, now,
                                         c.res.resolved)
                /\ req' = [req EXCEPT ![r].pc = "global_consume",
                                      ![r].res = c.res,
                                      ![r].ordinal = w.attempts,
                                      ![r].trace = Append(@, Event("global", c.res.resolved))]
    /\ UNCHANGED <<now, issuedCookies, perIPLimiter, served>>
    /\ UNCHANGED <<budget, horizon, clientVars>>

\* The mutant of TokenAfterGlobal: the catch gives the per-IP point back.
TokenAfterGlobalRefunds(r) ==
    /\ req[r].pc = "global_consume"
    /\ IF GlobalRejected(req[r].res)
       THEN /\ req' = [req EXCEPT ![r].pc = "done", ![r].res = NoRes,
                                  ![r].ordinal = 0,
                                  ![r].status = 429, ![r].body = VeryBusy]
            /\ perIPLimiter' =
                   IF perIPLimiter.storage[req[r].ip] = NoRecord THEN perIPLimiter
                   ELSE [perIPLimiter EXCEPT !.storage[req[r].ip].value = @ - 1]
       ELSE /\ req' = [req EXCEPT ![r].pc = "done", ![r].res = NoRes,
                                  ![r].ordinal = 0, ![r].status = 200,
                                  ![r].body = [token |-> generateAccessToken(req[r].ip)]]
            /\ UNCHANGED perIPLimiter
    /\ UNCHANGED <<now, issuedCookies, globalLimiter, served, window, allowedAt>>
    /\ UNCHANGED <<budget, horizon, clientVars>>

\* The handler resumes with the global outcome: 429, or the token.  (A
\* response whose body is set and whose status is not is sent with 200.)
TokenAfterGlobal(r) ==
    /\ req[r].pc = "global_consume"
    /\ IF GlobalRejected(req[r].res)
       THEN req' = [req EXCEPT ![r].pc = "done", ![r].res = NoRes, ![r].ordinal = 0,
                               ![r].status = 429, ![r].body = VeryBusy]
       ELSE LET token == generateAccessToken(req[r].ip)
            IN  req' = [req EXCEPT ![r].pc = "done", ![r].res = NoRes,
                                   ![r].ordinal = 0, ![r].status = 200,
                                   ![r].body = [token |-> token],
                                   ![r].trace = Append(@, Event("issuer", TRUE)),
                                   ![r].issuerCalls =
                                       Append(@, [identity |-> req[r].ip,
                                                  ttl |-> token.ttl,
                                                  result |-> token])]
    /\ UNCHANGED <<now, issuedCookies, perIPLimiter, globalLimiter, served, window,
                   allowedAt>>
    /\ UNCHANGED <<budget, horizon, clientVars>>

\* The response has been sent: the handler's context is gone.
TokenResponded(r) ==
    /\ req[r].pc = "done"
    /\ req' = [req EXCEPT ![r] = NewRequest]
    /\ UNCHANGED <<now, issuedCookies, perIPLimiter, globalLimiter, served, window,
                   allowedAt>>
    /\ UNCHANGED <<budget, horizon, clientVars>>

\* The timer MemoryStorage.set starts with a record deletes it when it expires.
Expired(storage, key, t) ==
    /\ storage[key] # NoRecord
    /\ t >= storage[key].expiresAt

StorageTimeout(l, key) ==
    /\ IF l = "perIP"
       THEN /\ Expired(perIPLimiter.storage, key, now)
            /\ perIPLimiter' = [perIPLimiter EXCEPT !.storage[key] = NoRecord]
            /\ UNCHANGED globalLimiter
       ELSE /\ Expired(globalLimiter.storage, key, now)
            /\ globalLimiter' = [globalLimiter EXCEPT !.storage[key] = NoRecord]
            /\ UNCHANGED perIPLimiter
    /\ UNCHANGED <<now, issuedCookies, req, served, window, allowedAt>>
    /\ UNCHANGED <<budget, horizon, clientVars>>

\* The storage once every timer that is due at t has run.
TimersRun(storage, t) ==
    [k \in StorageKeys |-> IF Expired(storage, k, t) THEN NoRecord ELSE storage[k]]

\* Time passes; the timers that were due have run by then.
Tick ==
    /\ now < horizon
    /\ now' = now + 1
    /\ perIPLimiter' = [perIPLimiter EXCEPT !.storage = TimersRun(@, now)]
    /\ globalLimiter' = [globalLimiter EXCEPT !.storage = TimersRun(@, now)]
    /\ UNCHANGED <<issuedCookies, req, served, window, allowedAt>>
    /\ UNCHANGED <<budget, horizon, clientVars>>

Next ==
    \/ \E ip \in IPs : Home(ip)
    \/ \E r \in Handlers, ip \in IPs :
          \E cookie \in PresentableCookies(ip) : TokenStart(r, ip, cookie)
    \/ \E r \in Handlers : TokenAfterPerIP(r)
    \/ \E r \in Handlers : TokenAfterGlobal(r)
    \/ \E r \in Handlers : TokenResponded(r)
    \/ \E l \in {"perIP", "global"}, key \in StorageKeys : StorageTimeout(l, key)
    \/ Tick

Spec == Init /\ [][Next]_vars

\* The scaled configuration, followed for SessionRequests requests.
InitSession ==
    InitWith(NewLimiter(SmallPerIPLimit, SmallPerIPDuration),
             NewLimiter(SmallGlobalLimit, SmallGlobalDuration), SessionRequests,
             MaxTime, NoLog)

\* The scaled configuration, the clock running to WindowTime, with the log of
\* resolved consume calls kept.
InitWindows ==
    InitWith(NewLimiter(SmallPerIPLimit, SmallPerIPDuration),
             NewLimiter(SmallGlobalLimit, SmallGlobalDuration), WindowRequests,
             WindowTime, EmptyLog)

\* The program's own configuration under the load of one client: every
\* request comes from the one address and presents the cookie the server
\* issued to it.
Caller == "10.0.0.5"

NextProgram ==
    \/ Home(Caller)
    \/ \E r \in Handlers :
          \E cookie \in PresentableCookies(Caller) \cap {CookiesSet(Caller)} :
              TokenStart(r, Caller, cookie)
    \/ \E r \in Handlers : TokenAfterPerIP(r)
    \/ \E r \in Handlers : TokenAfterGlobal(r)
    \/ \E r \in Handlers : TokenResponded(r)
    \/ \E l \in {"perIP", "global"}, key \in StorageKeys : StorageTimeout(l, key)
    \/ Tick

\* Every kind of client, as in Spec, followed for fewer requests: what the
\* session check does with a request does not depend on the requests before.
SpecSession == InitSession /\ [][Next]_vars

\* The scaled configuration, followed for one request more than one address
\* is allowed in a window, over one window of the global limiter.
InitFair ==
    InitWith(NewLimiter(SmallPerIPLimit, SmallPerIPDuration),
             NewLimiter(SmallGlobalLimit, SmallGlobalDuration), SmallPerIPLimit + 1,
             SmallGlobalDuration, NoLog)

\* Every kind of client, with the event loop running: a handler whose awaited
\* promise has settled is resumed (the consume of RateLimiterMemory settles at
\* once, and a continuation that is ready is run).
SpecFair ==
    /\ InitFair
    /\ [][Next]_vars
    /\ \A r \in Handlers : WF_vars(TokenAfterPerIP(r)) /\ WF_vars(TokenAfterGlobal(r))

\* Two clients, one of which has the global limiter's key as its address
\* (context.request.ip is whatever string the connection or a proxy header
\* gives).
KeyCallers == {Caller, GlobalKey}

NextKeys ==
    \/ \E ip \in KeyCallers : Home(ip)
    \/ \E r \in Handlers, ip \in KeyCallers :
          \E cookie \in PresentableCookies(ip) : TokenStart(r, ip, cookie)
    \/ \E r \in Handlers : TokenAfterPerIP(r)
    \/ \E r \in Handlers : TokenAfterGlobal(r)
    \/ \E r \in Handlers : TokenResponded(r)
    \/ \E l \in {"perIP", "global"}, key \in StorageKeys : StorageTimeout(l, key)
    \/ Tick

SpecKeys == InitFair /\ [][NextKeys]_vars

SpecProgram == InitProgram /\ [][NextProgram]_vars

\* The scaled configuration under the load of one client, over a time long
\* enough for a window to be restarted later than at its end.
SpecWindows == InitWindows /\ [][NextProgram]_vars

\* ====================================================== the browser client
\* static/app.js.  A click handler is an async function; it runs from one
\* await to the next without another handler or event in between.  An await on
\* a promise that is already settled resumes before any other event of the
\* page is handled, so a step below runs the handler up to its next await on
\* something the page has to wait for: getUserMedia, fetch, device.connect,
\* unsetInputDevice.

\* The mutant of readyToMakeCall: the End button is left as it is.
readyToMakeCallLeavesEnd ==
    /\ call' = NoCall
    /\ callButton' = [hidden |-> FALSE, disabled |-> FALSE]
    /\ endButton' = endButton

\* readyToMakeCall().
readyToMakeCall ==
    /\ call' = NoCall
    /\ callButton' = [hidden |-> FALSE, disabled |-> FALSE]
    /\ endButton' = [hidden |-> TRUE]

\* What getUserMedia can settle with: a stream, or an error of this name.
UserMediaOutcomes ==
    {"stream", "NotFoundError", "DevicesNotFoundError", "NotAllowedError",
     "PermissionDeniedError", "NotReadableError"}

\* getMicrophonePermission() up to its await: "true" or "false" when the
\* recorded state decides, "ask" when it goes on to call getUserMedia.
PermissionFromState(state) ==
    IF state = "granted" THEN "true"
    ELSE IF state = "denied" \/ state = "notFound" THEN "false"
    ELSE "ask"

\* getMicrophonePermission() after its await: the state it records and the
\* value it returns ("undefined": the bare return of the last branch).
PermissionFromOutcome(outcome) ==
    IF outcome = "stream" THEN [state |-> "granted", returns |-> "true"]
    ELSE IF outcome = "NotFoundError" \/ outcome = "DevicesNotFoundError"
    THEN [state |-> "notFound", returns |-> "false"]
    ELSE IF outcome = "NotAllowedError" \/ outcome = "PermissionDeniedError"
    THEN [state |-> "denied", returns |-> "false"]
    ELSE [state |-> "denied", returns |-> "undefined"]

\* !await getMicrophonePermission() is false: the handler goes on.
PermissionAllows(returned) == returned = "true"

\* A click on the Call button (which a hidden or disabled button does not
\* take): callButtonHandler up to the first await the page waits for.
ClickCall ==
    /\ clicks < MaxClicks
    /\ ~callButton.hidden /\ ~callButton.disabled
    /\ clicks' = clicks + 1
    /\ LET h == clicks + 1
           returned == PermissionFromState(microphonePermissionState)
       IN  IF returned = "ask"
           THEN /\ click' = [click EXCEPT ![h].pc = "getUserMedia",
                                          ![h].getUserMedia = TRUE]
                /\ UNCHANGED callButton
           ELSE IF PermissionAllows(returned)
           THEN /\ click' = [click EXCEPT ![h].pc = "fetch",
                                          ![h].permission = returned,
                                          ![h].tokenRequest = TRUE]
                /\ callButton' = [callButton EXCEPT !.disabled = TRUE]
           ELSE /\ click' = [click EXCEPT ![h].pc = "done",
                                          ![h].permission = returned]
                /\ UNCHANGED callButton
    /\ UNCHANGED <<call, device, microphonePermissionState, endButton, calls>>
    /\ UNCHANGED serverVars

\* getUserMedia settles for click h: getMicrophonePermission records the
\* state and returns; callButtonHandler returns, or disables the button and
\* starts makeCall, which sends the token request.
GetUserMediaSettles(h, outcome) ==
    /\ click[h].pc = "getUserMedia"
    /\ LET p == PermissionFromOutcome(outcome)
       IN  /\ microphonePermissionState' = p.state
           /\ IF PermissionAllows(p.returns)
              THEN /\ click' = [click EXCEPT ![h].pc = "fetch",
                                             ![h].permission = p.returns,
                                             ![h].tokenRequest = TRUE]
                   /\ callButton' = [callButton EXCEPT !.disabled = TRUE]
              ELSE /\ click' = [click EXCEPT ![h].pc = "done",
                                             ![h].permission = p.returns]
                   /\ UNCHANGED callButton
    /\ UNCHANGED <<call, device, endButton, clicks, calls>>
    /\ UNCHANGED serverVars

\* The statuses the fetch of /token can resolve with.
FetchStatuses == {200, 401, 403, 429, 500, 503}

\* What can throw in the try block of makeCall: nothing, the Device
\* constructor, device.updateToken or device.connect.
DeviceThrows == {"no", "Device", "updateToken", "connect"}

\* The branch of `if (device)` in makeCall: what is done with the device, and
\* the device after it.
DeviceStep(h, deviceThrows) ==
    IF device # NoDevice THEN [did |-> "updateToken", device |-> device]
    ELSE IF deviceThrows = "Device" THEN [did |-> "threw", device |-> NoDevice]
    ELSE [did |-> "new", device |-> h]

\* The mutant of FetchResolves: makeCall makes a new Device for every token.
FetchResolvesNewDevice(h, status, deviceThrows) ==
    /\ click[h].pc = "fetch"
    /\ deviceThrows = "Device" => device = NoDevice
    /\ deviceThrows = "updateToken" => device # NoDevice
    /\ IF ResultOk(status)
       THEN /\ device' = IF deviceThrows = "Device" THEN device ELSE h
            /\ IF deviceThrows = "no"
               THEN /\ click' = [click EXCEPT ![h].pc = "connect",
                                              ![h].deviceCall = "new"]
                    /\ UNCHANGED <<call, callButton>>
               ELSE /\ call' = NoCall
                    /\ callButton' = [callButton EXCEPT !.disabled = FALSE]
                    /\ click' = [click EXCEPT ![h].pc = "done",
                                              ![h].deviceCall =
                                                  IF deviceThrows = "Device"
                                                  THEN "threw" ELSE "new"]
       ELSE /\ call' = NoCall
            /\ callButton' = [callButton EXCEPT !.disabled = FALSE]
            /\ click' = [click EXCEPT ![h].pc = "done"]
            /\ UNCHANGED device
    /\ UNCHANGED <<microphonePermissionState, endButton, clicks, calls>>
    /\ UNCHANGED serverVars

\* fetch('/token') resolves for click h with this status (and its body has
\* been read).  With a token makeCall creates the device or updates its token
\* and calls connect, whose promise the handler then awaits; deviceThrows:
\* what throws on the way, which makeCall catches (the constructor is called
\* only without a device, updateToken only with one).  Without a token, and
\* after the catch, makeCall returns undefined: the handler assigns it to
\* call and enables the button.
FetchResolves(h, status, deviceThrows) ==
    /\ click[h].pc = "fetch"
    /\ deviceThrows = "Device" => device = NoDevice
    /\ deviceThrows = "updateToken" => device # NoDevice
    /\ IF ResultOk(status)
       THEN /\ device' = DeviceStep(h, deviceThrows).device
            /\ IF deviceThrows = "no"
               THEN /\ click' = [click EXCEPT ![h].pc = "connect",
                                              ![h].deviceCall =
                                                  DeviceStep(h, deviceThrows).did]
                    /\ UNCHANGED <<call, callButton>>
               ELSE /\ call' = NoCall
                    /\ callButton' = [callButton EXCEPT !.disabled = FALSE]
                    /\ click' = [click EXCEPT ![h].pc = "done",
                                              ![h].deviceCall =
                                                  DeviceStep(h, deviceThrows).did]
       ELSE /\ call' = NoCall
            /\ callButton' = [callButton EXCEPT !.disabled = FALSE]
            /\ click' = [click EXCEPT ![h].pc = "done"]
            /\ UNCHANGED device
    /\ UNCHANGED <<microphonePermissionState, endButton, clicks, calls>>
    /\ UNCHANGED serverVars

\* fetch('/token') rejects (the network fails): nothing catches it, the
\* handler of click h ends there.
FetchRejects(h) ==
    /\ click[h].pc = "fetch"
    /\ click' = [click EXCEPT ![h].pc = "died"]
    /\ UNCHANGED <<call, device, microphonePermissionState, callButton, endButton,
                   clicks, calls>>
    /\ UNCHANGED serverVars

\* The promise of device.connect() settles for click h.  Resolved: the handler
\* has its call, swaps the buttons and registers the call's listeners.
\* Rejected: makeCall returned the promise without awaiting it, so its catch
\* does not apply and the handler ends there.
ConnectSettles(h, resolved) ==
    /\ click[h].pc = "connect"
    /\ IF resolved
       THEN /\ call' = h
            /\ calls' = [calls EXCEPT ![h].state = "open"]
            /\ callButton' = [callButton EXCEPT !.hidden = TRUE]
            /\ endButton' = [endButton EXCEPT !.hidden = FALSE]
            /\ click' = [click EXCEPT ![h].pc = "done"]
       ELSE /\ click' = [click EXCEPT ![h].pc = "died"]
            /\ UNCHANGED <<call, calls, callButton, endButton>>
    /\ UNCHANGED <<device, microphonePermissionState, clicks>>
    /\ UNCHANGED serverVars

\* A click on the End button (which a hidden button does not take):
\* call.disconnect(), which throws when call is undefined, then
\* readyToMakeCall().  The call's disconnect event comes later.
ClickEnd ==
    /\ ~endButton.hidden
    /\ IF call = NoCall
       THEN UNCHANGED <<call, callButton, endButton, calls>>
       ELSE /\ calls' = [calls EXCEPT ![call].state =
                            IF @ \in {"open", "errored"} THEN "closing" ELSE @]
            /\ readyToMakeCall
    /\ UNCHANGED <<device, microphonePermissionState, clicks, click>>
    /\ UNCHANGED serverVars

\* Call c emits disconnect or cancel: its listener starts and awaits
\* device.audio.unsetInputDevice().
CallEventKinds == {"disconnect", "cancel"}

CallEnds(c, kind) ==
    /\ calls[c].state \in {"open", "errored", "closing"}
    /\ calls' = [calls EXCEPT ![c].state = "closed", ![c].unsetting = @ + 1]
    /\ UNCHANGED <<call, device, microphonePermissionState, callButton, endButton,
                   clicks, click>>
    /\ UNCHANGED serverVars

\* unsetInputDevice settles for a listener of call c: readyToMakeCall().
UnsetInputDeviceSettles(c) ==
    /\ calls[c].unsetting > 0
    /\ calls' = [calls EXCEPT ![c].unsetting = @ - 1]
    /\ readyToMakeCall
    /\ UNCHANGED <<device, microphonePermissionState, clicks, click>>
    /\ UNCHANGED serverVars

\* Call c emits error: its listener alerts and calls readyToMakeCall().
CallError(c) ==
    /\ calls[c].state = "open"
    /\ calls' = [calls EXCEPT ![c].state = "errored"]
    /\ readyToMakeCall
    /\ UNCHANGED <<device, microphonePermissionState, clicks, click>>
    /\ UNCHANGED serverVars

NextClient ==
    \/ ClickCall
    \/ \E h \in Clicks, outcome \in UserMediaOutcomes : GetUserMediaSettles(h, outcome)
    \/ \E h \in Clicks, status \in FetchStatuses, deviceThrows \in DeviceThrows :
          FetchResolves(h, status, deviceThrows)
    \/ \E h \in Clicks : FetchRejects(h)
    \/ \E h \in Clicks, resolved \in BOOLEAN : ConnectSettles(h, resolved)
    \/ ClickEnd
    \/ \E c \in Clicks, kind \in CallEventKinds : CallEnds(c, kind)
    \/ \E c \in Clicks : UnsetInputDeviceSettles(c)
    \/ \E c \in Clicks : CallError(c)

SpecClient == Init /\ [][NextClient]_vars

\* The page with the browser doing its part: a fetch that is out settles, one
\* way or the other, and so do the promises of device.connect() and of
\* unsetInputDevice().  (A microphone prompt may stay unanswered, and nothing
\* makes the user click.)
SpecClientFair ==
    /\ Init
    /\ [][NextClient]_vars
    /\ \A h \in Clicks :
          /\ WF_vars((\E status \in FetchStatuses, deviceThrows \in DeviceThrows :
                         FetchResolves(h, status, deviceThrows)) \/ FetchRejects(h))
          /\ WF_vars(\E resolved \in BOOLEAN : ConnectSettles(h, resolved))
          /\ WF_vars(UnsetInputDeviceSettles(h))

\* ============================================================== properties
Limiter(l) == IF l = "perIP" THEN perIPLimiter ELSE globalLimiter
LimiterNames == {"perIP", "global"}
Min(a, b) == IF a < b THEN a ELSE b

\* Handler r took a step.
Stepped(r) == req'[r] # req[r]
\* Handler r took its first step (the request arrived and was session-checked).
Arrived(r) == req[r].pc = "new" /\ req'[r].pc # "new"

\* The window of key is open at t and has let `points` calls through.
AtLimit(l, key, t) ==
    /\ window[l][key] # NoWindow
    /\ t < window[l][key].start + Limiter(l).duration
    /\ window[l][key].allowed >= Limiter(l).points

\* The window of key has ended at t.
WindowOver(l, key, t) ==
    /\ window[l][key] # NoWindow
    /\ t >= window[l][key].start + Limiter(l).duration

\* --------------------------------------------------------------------- C1
\* C1: a /token request whose session cookie is not the one the server set
\* for the requesting address (none, a corrupted one, one set for another
\* address) ends with 401 and the not-authorized body, and its step changes
\* neither limiter.
C1_UnauthorizedTakesNoQuota ==
    [][\A r \in Handlers :
         (Arrived(r) /\ req'[r].cookie # CookiesSet(req'[r].ip)) =>
            /\ req'[r].pc = "done"
            /\ req'[r].status = 401
            /\ req'[r].body = Unauthorized
            /\ perIPLimiter' = perIPLimiter
            /\ globalLimiter' = globalLimiter
            /\ window' = window]_vars

\* A 401 for a cookie the server set for another address, while the requesting
\* address has a bucket that could have been charged.
C1_Witness ==
    \E r \in Handlers :
        /\ req[r].pc = "done" /\ req[r].status = 401
        /\ req[r].cookie # NoCookie
        /\ req[r].cookie = CookiesSet(req[r].cookie.value)
        /\ req[r].cookie.value # req[r].ip
        /\ perIPLimiter.storage[req[r].ip] # NoRecord

\* --------------------------------------------------------------------- C2
\* C2: a request of an address that is at its per-IP limit in the open window
\* has its per-IP consume rejected, ends with 429 and the too-many-calls body,
\* and none of its steps changes the global limiter.
C2_AtIdentityLimitLeavesGlobal ==
    [][\A r \in Handlers :
         /\ (Arrived(r) /\ req'[r].cookie = CookiesSet(req'[r].ip)
                /\ AtLimit("perIP", req'[r].ip, now)) =>
               /\ req'[r].pc = "perIP_consume"
               /\ ~req'[r].res.resolved
               /\ globalLimiter' = globalLimiter
         /\ (req[r].pc = "perIP_consume" /\ ~req[r].res.resolved /\ Stepped(r)) =>
               /\ req'[r].pc = "done"
               /\ req'[r].status = 429
               /\ req'[r].body = TooManyCalls
               /\ globalLimiter' = globalLimiter
               /\ window'["global"] = window["global"]]_vars

\* A request rejected for its address's quota while another request is between
\* its two consumes and the global bucket is in use.
C2_Witness ==
    \E r, q \in Handlers :
        /\ req[r].pc = "done" /\ req[r].body = TooManyCalls
        /\ req[q].pc = "global_consume"
        /\ globalLimiter.storage[GlobalKey] # NoRecord

\* --------------------------------------------------------------------- C3
\* C3: the issuer is called at most once per request, and only after the
\* session check passed, the per-IP consume resolved and the global consume
\* resolved, in that order; it is called with the requesting address and
\* ACCESS_TOKEN_TTL, and the response's token is its result.
C3_IssuerOnlyAfterAllChecks ==
    \A r \in Handlers :
        /\ Len(req[r].issuerCalls) <= 1
        /\ ("token" \in DOMAIN req[r].body) <=> (req[r].issuerCalls # <<>>)
        /\ req[r].issuerCalls # <<>> =>
              /\ req[r].trace = <<Event("session", TRUE), Event("perIP", TRUE),
                                  Event("global", TRUE), Event("issuer", TRUE)>>
              /\ req[r].cookie = CookiesSet(req[r].ip)
              /\ req[r].issuerCalls[1].identity = req[r].ip
              /\ req[r].issuerCalls[1].ttl = ACCESS_TOKEN_TTL
              /\ req[r].body = [token |-> req[r].issuerCalls[1].result]
              /\ req[r].body.token.identity = req[r].ip
              /\ req[r].status = 200

\* Two requests answered with a token, for different addresses.
C3_Witness ==
    \E r, q \in Handlers :
        /\ req[r].issuerCalls # <<>> /\ req[q].issuerCalls # <<>>
        /\ req[r].ip # req[q].ip

\* --------------------------------------------------------------------- C4
\* C4: of the N consume calls made for one key within one window of a limiter
\* with k points, exactly min(N, k) resolved and the other N - min(N, k) were
\* rejected, whatever the interleaving of the handlers that made them.
C4_ExactlyLimitAdmitted ==
    \A l \in LimiterNames, key \in StorageKeys :
        window[l][key] # NoWindow =>
            window[l][key].allowed = Min(window[l][key].attempts, Limiter(l).points)

\* More calls than points in the global window, the last two made by handlers
\* that are both suspended on their global consume: one won, one lost.
C4_Witness ==
    \E r, q \in Handlers :
        /\ req[r].pc = "global_consume" /\ req[q].pc = "global_consume"
        /\ req[r].res.resolved /\ ~req[q].res.resolved
        /\ window["global"][GlobalKey].attempts > globalLimiter.points
        /\ window["global"][GlobalKey].allowed = globalLimiter.points

\* --------------------------------------------------------------------- C5
\* C5: within one per-IP window of an address, each of the first `points`
\* consumes resolves and its request goes on to the global consume; the next
\* consume is rejected and its request ends with 429 and the too-many-calls
\* body.
C5_FirstLimitAllowedNextRejected ==
    [][\A r \in Handlers :
         /\ (Arrived(r) /\ req'[r].pc = "perIP_consume") =>
               /\ req'[r].ordinal = window'["perIP"][req'[r].ip].attempts
               /\ req'[r].res.resolved <=> (req'[r].ordinal <= perIPLimiter.points)
         /\ (req[r].pc = "perIP_consume" /\ Stepped(r)) =>
               IF req[r].ordinal <= perIPLimiter.points
               THEN req'[r].pc = "global_consume"
               ELSE /\ req'[r].pc = "done" /\ req'[r].status = 429
                    /\ req'[r].body = TooManyCalls]_vars

\* The consume after the last allowed one of a window: rejected, and answered.
C5_Witness ==
    \E r \in Handlers :
        /\ req[r].pc = "done" /\ req[r].body = TooManyCalls
        /\ window["perIP"][req[r].ip].attempts = perIPLimiter.points + 1
        /\ window["perIP"][req[r].ip].allowed = perIPLimiter.points

\* --------------------------------------------------------------------- C6
\* C6: once `points` requests, of any addresses, have passed the global
\* consume within the open global window, the next request to reach the
\* global consume in that window is rejected and ends with 429 and the
\* very-busy body, also when it is the first request of its address.
C6_GlobalBucketShared ==
    [][\A r \in Handlers :
         /\ (req[r].pc = "perIP_consume" /\ req[r].res.resolved /\ Stepped(r)
                /\ AtLimit("global", GlobalKey, now)) =>
               /\ req'[r].pc = "global_consume"
               /\ ~req'[r].res.resolved
         /\ (req[r].pc = "global_consume" /\ ~req[r].res.resolved /\ Stepped(r)) =>
               /\ req'[r].pc = "done"
               /\ req'[r].status = 429
               /\ req'[r].body = VeryBusy]_vars

\* A very-busy answer to the first request ever of an address, the global
\* window having been filled by the other address.
C6_Witness ==
    \E r \in Handlers :
        /\ req[r].pc = "done" /\ req[r].body = VeryBusy
        /\ window["perIP"][req[r].ip].attempts = 1
        /\ window["perIP"][req[r].ip].prevRejected = 0
        /\ window["perIP"][req[r].ip].start = now
        /\ \E other \in IPs \ {req[r].ip} :
               /\ window["perIP"][other] # NoWindow
               /\ window["perIP"][other].allowed >= globalLimiter.points

\* --------------------------------------------------------------------- C7
\* C7: a consume made when the key's window has ended (duration or more after
\* the window's start) resolves, also when the ended window had taken more
\* calls than the limiter has points.
C7_AllowedAfterWindowEnds ==
    [][\A r \in Handlers :
         /\ (Arrived(r) /\ req'[r].pc = "perIP_consume"
                /\ WindowOver("perIP", req'[r].ip, now)) =>
               /\ req'[r].res.resolved
               /\ window'["perIP"][req'[r].ip].start = now
         /\ (req[r].pc = "perIP_consume" /\ req'[r].pc = "global_consume"
                /\ WindowOver("global", GlobalKey, now)) =>
               /\ req'[r].res.resolved
               /\ window'["global"][GlobalKey].start = now]_vars

\* The first consume of an address after a window in which it was rejected:
\* resolved.
C7_Witness ==
    \E r \in Handlers :
        /\ req[r].pc = "perIP_consume" /\ req[r].res.resolved
        /\ window["perIP"][req[r].ip].prevRejected > 0
        /\ window["perIP"][req[r].ip].attempts = 1

\* --------------------------------------------------------------------- C8
\* C8: a request adds one to its address's per-IP count when its per-IP consume
\* is made, and no later step of it changes the per-IP limiter; in particular
\* the step that answers a rejected global consume (429, very busy) leaves the
\* per-IP limiter as it was.
C8_NoRefundOnGlobalReject ==
    [][\A r \in Handlers :
         /\ (Arrived(r) /\ req'[r].pc = "perIP_consume") =>
               /\ perIPLimiter'.storage[req'[r].ip] # NoRecord
               /\ perIPLimiter'.storage[req'[r].ip].value =
                     window'["perIP"][req'[r].ip].attempts
               /\ window["perIP"][req'[r].ip] # NoWindow =>
                     window'["perIP"][req'[r].ip].attempts \in
                        {1, window["perIP"][req'[r].ip].attempts + 1}
         /\ (req[r].pc \in {"perIP_consume", "global_consume"} /\ Stepped(r)) =>
               perIPLimiter' = perIPLimiter
         /\ (req[r].pc = "global_consume" /\ ~req[r].res.resolved /\ Stepped(r)) =>
               /\ req'[r].body = VeryBusy
               /\ window'["perIP"] = window["perIP"]]_vars

\* A request answered very busy whose address's count still holds its point.
C8_Witness ==
    \E r \in Handlers :
        /\ req[r].pc = "done" /\ req[r].body = VeryBusy
        /\ req[r].trace = <<Event("session", TRUE), Event("perIP", TRUE),
                            Event("global", FALSE)>>
        /\ perIPLimiter.storage[req[r].ip] # NoRecord
        /\ perIPLimiter.storage[req[r].ip].value = perIPLimiter.points
        /\ window["perIP"][req[r].ip].allowed = perIPLimiter.points

RejectedLeavesWindow(before, after) ==
    /\ before # NoRecord
    /\ after # NoRecord
    /\ after.expiresAt = before.expiresAt
    /\ after.value = before.value + 1

IssuedFor(cookie, a) == a \in issuedCookies /\ cookie = CookiesSet(a)
LegacyIssuedFor(p, a) == a \in issuedCookies /\ p = createSessionCookie(a).value

\* C11: the verification of a presented proof for the requesting identity
\* succeeds if and only if the server issued that proof for exactly that
\* identity: in every request the handler has session-checked, the session
\* value equals the address exactly when the cookie is the one issued for the
\* address; and checkSessionCookie of the earlier revision returns true for
\* exactly the JWTs issued for the identity, among all a client can present.
C11_VerifiesIffIssuedForIdentity ==
    /\ \A r \in Handlers :
          req[r].pc # "new" =>
             ((req[r].session = req[r].ip) <=> IssuedFor(req[r].cookie, req[r].ip))
    /\ \A a \in IPs : \A b \in IPs : \A p \in LegacyPresentable(a) \cup LegacyPresentable(b) :
          checkSessionCookie(p, a).value <=> LegacyIssuedFor(p, a)

\* Two requests checked, each presenting a cookie the server issued: one for
\* the requesting address, which verified, and one for the other address,
\* which did not.
C11_Witness ==
    \E r \in Handlers, q \in Handlers :
        /\ req[r].pc # "new" /\ req[q].pc # "new"
        /\ IssuedFor(req[r].cookie, req[r].ip) /\ req[r].session = req[r].ip
        /\ \E b \in IPs : b # req[q].ip /\ IssuedFor(req[q].cookie, b)
        /\ req[q].session # req[q].ip /\ req[q].status = 401

\* ------------------------------------------------------------------- C12
\* C12: session verification never raises: a request whose proof is missing,
\* malformed, badly signed or issued for another identity has been answered
\* with the 401 response as soon as the handler has checked it; and in the
\* earlier revision checkSessionCookie returns a boolean for every session
\* value and the handler ends with a response for every Cookie header, which
\* is the 401 response unless the JWT was issued for the requesting identity.
C12_VerificationNeverRaises ==
    /\ \A r \in Handlers :
          (req[r].pc # "new" /\ ~IssuedFor(req[r].cookie, req[r].ip)) =>
             /\ req[r].pc = "done"
             /\ req[r].status = 401
             /\ req[r].body = Unauthorized
    /\ \A a \in IPs : \A b \in IPs : \A h \in LegacyHeaders(a) \cup LegacyHeaders(b) :
          LET match == SessionMatch(h)
              response == LegacyToken(h, a)
          IN  /\ match # NoMatch =>
                    /\ ~checkSessionCookie(match, a).threw
                    /\ checkSessionCookie(match, a).value \in BOOLEAN
              /\ ~response.threw
              /\ (match = NoMatch \/ ~LegacyIssuedFor(match, a)) =>
                    /\ response.status = 401
                    /\ response.body = [error |-> "Unauthorized"]

\* A request that presented a cookie signed with a foreign key has its 401,
\* and a JWT issued for one address, presented from the other, is refused.
C12_Witness ==
    /\ \E r \in Handlers :
          /\ req[r].pc = "done" /\ req[r].cookie # NoCookie
          /\ req[r].cookie.sigKey = OtherKey /\ req[r].status = 401
    /\ \E a \in IPs, b \in issuedCookies :
          /\ a # b
          /\ LegacyToken(CookieHeader("session", ToJwt(b)), a).status = 401
          /\ LegacyToken(CookieHeader("session", Garbled), a).status = 401

\* ------------------------------------------------------------------- C13
\* The check that failed in an answered request, "none" when none did: the
\* handler returns at the first call that fails.
FailedCheck(r) ==
    LET last == req[r].trace[Len(req[r].trace)]
    IN  IF last.ok THEN "none" ELSE last.call

\* C13: every rejected request carries exactly one of three error kinds, by
\* the check that failed: the session check gives status 401, the per-IP
\* consume status 429, the global consume status 429 with a message that is
\* not the per-IP one; the three bodies differ pairwise, a rejected response
\* has no token and the browser does not take it for a token response; a
\* request no check failed for carries the token with status 200.
C13_RejectedCarriesOneErrorKind ==
    \A r \in Handlers :
        req[r].pc = "done" =>
           /\ FailedCheck(r) = "session" => (req[r].status = 401 /\ req[r].body = Unauthorized)
           /\ FailedCheck(r) = "perIP" => (req[r].status = 429 /\ req[r].body = TooManyCalls)
           /\ FailedCheck(r) = "global" =>
                 /\ req[r].status = 429 /\ req[r].body = VeryBusy
                 /\ req[r].body.error # TooManyCalls.error
           /\ FailedCheck(r) # "none" =>
                 /\ DOMAIN req[r].body = {"error"}
                 /\ req[r].body \in {Unauthorized, TooManyCalls, VeryBusy}
                 /\ Cardinality({Unauthorized, TooManyCalls, VeryBusy}) = 3
                 /\ ~ResultOk(req[r].status)
           /\ FailedCheck(r) = "none" =>
                 /\ req[r].status = 200 /\ DOMAIN req[r].body = {"token"}

\* Two answered requests: one rejected by the per-IP limiter, one by the
\* global limiter.
C13_Witness ==
    \E r \in Handlers, q \in Handlers :
        /\ req[r].pc = "done" /\ FailedCheck(r) = "perIP"
        /\ req[q].pc = "done" /\ FailedCheck(q) = "global"

\* ------------------------------------------------------------------- C14
\* C14: with the program's limits (10 a day per address, 5 a second for all)
\* and empty buckets, of the requests one address makes with its valid cookie
\* the first passes the per-IP limiter and, being the only request so far, is
\* answered 200 with a token for the address that lives ACCESS_TOKEN_TTL
\* seconds; the 11th of the window is answered 429 with the per-IP message,
\* not the global one, and makes no call on the global limiter.
C14_EleventhRejectedByIdentityQuota ==
    [][\A r \in Handlers :
         /\ (req[r].pc = "perIP_consume" /\ req[r].ordinal = 1 /\ Stepped(r)) =>
               req'[r].pc = "global_consume"
         /\ (req[r].pc = "global_consume" /\ served = 1 /\ Stepped(r)) =>
               /\ req'[r].status = 200
               /\ req'[r].body = [token |-> [identity |-> req[r].ip,
                                             ttl |-> ACCESS_TOKEN_TTL,
                                             grant |-> "voice"]]
         /\ (req[r].pc = "perIP_consume" /\ req[r].ordinal = PER_IP_DAILY_LIMIT + 1
                /\ Stepped(r)) =>
               /\ req'[r].pc = "done"
               /\ req'[r].status = 429
               /\ req'[r].body = TooManyCalls
               /\ req'[r].body # VeryBusy
               /\ globalLimiter' = globalLimiter
      ]_vars

\* The 11th request of the address, made in the second of its first, has its
\* 429; ten were let through by the per-IP limiter and five of them by the
\* global one.
C14_Witness ==
    \E r \in Handlers :
        /\ req[r].pc = "done" /\ req[r].status = 429 /\ req[r].body = TooManyCalls
        /\ served = PER_IP_DAILY_LIMIT + 1
        /\ window["perIP"][req[r].ip].attempts = PER_IP_DAILY_LIMIT + 1
        /\ window["perIP"][req[r].ip].allowed = PER_IP_DAILY_LIMIT
        /\ window["perIP"][req[r].ip].start = now
        /\ window["global"][GlobalKey].allowed = GLOBAL_CPS_LIMIT
        /\ window["global"][GlobalKey].start = now

\* ------------------------------------------------------------------- C16
\* C16: in every reachable state of the page exactly one of the Call button
\* and the End button is visible: never both, never neither.
C16_ExactlyOneButtonVisible ==
    callButton.hidden # endButton.hidden

\* The End button is the visible one while a later click's handler is still
\* waiting and an earlier call has ended: clicks, a connect and call events
\* have all happened.
C16_Witness ==
    /\ ~endButton.hidden /\ callButton.hidden
    /\ \E c \in Clicks : calls[c].state = "closed"
    /\ \E h \in Clicks : calls[h].state = "open"

\* ------------------------------------------------------------------- C17
\* The call attempt of click h is under way: its makeCall has started (the
\* token request is out, or connect is pending), or its call is connected and
\* has not ended by a disconnect, a cancel, an error or an End click.
AttemptUnderWay(h) ==
    \/ click[h].pc \in {"fetch", "connect"}
    \/ calls[h].state = "open"

\* C17: the page never has two overlapping call attempts: at most one click's
\* attempt is under way in any reachable state.
C17_NoOverlappingAttempts ==
    Cardinality({h \in Clicks : AttemptUnderWay(h)}) <= 1

\* ------------------------------------------------------------------- C18
\* A getUserMedia call has settled by now with an error (which recorded
\* 'denied' or 'notFound'), or with a stream (which recorded 'granted').
EverRefused ==
    \E k \in Clicks : click[k].getUserMedia /\ click[k].permission \in {"false", "undefined"}
EverGranted ==
    \E k \in Clicks : click[k].getUserMedia /\ click[k].permission = "true"

\* A token request is out for a click only if getMicrophonePermission returned
\* true for that click.
TokenRequestOnlyIfPermitted ==
    \A h \in Clicks : click[h].tokenRequest => click[h].permission = "true"

\* The step is a click on the Call button.
Clicked == clicks' = clicks + 1

\* C18 as stated: a token request is sent for a click only if
\* getMicrophonePermission returned true for it; once 'denied' or 'notFound'
\* has been recorded every later click returns false without getUserMedia
\* and without a token request; once 'granted' has been recorded every later
\* click returns true without getUserMedia.
C18_Original ==
    /\ []TokenRequestOnlyIfPermitted
    /\ [][Clicked =>
            /\ EverRefused =>
                  /\ click'[clicks'].permission = "false"
                  /\ ~click'[clicks'].getUserMedia
                  /\ ~click'[clicks'].tokenRequest
            /\ EverGranted =>
                  /\ click'[clicks'].permission = "true"
                  /\ ~click'[clicks'].getUserMedia
        ]_vars

\* ------------------------------------------------------------------- C19
\* The resolved consume calls i..j of the key's log: how many they are, and
\* the time from the first to the last of them.
BurstCount(i, j) == j - i + 1
BurstSpan(s, i, j) == s[j] - s[i]

\* In any span no longer than one duration at most 2 x points calls of a key
\* resolve.
AtMostTwiceLimitPerDuration ==
    \A l \in LimiterNames, k \in StorageKeys :
        \A i \in DOMAIN allowedAt[l][k], j \in DOMAIN allowedAt[l][k] :
            (i <= j /\ BurstSpan(allowedAt[l][k], i, j) <= Limiter(l).duration) =>
                BurstCount(i, j) <= 2 * Limiter(l).points

\* C19 as stated: in any span no longer than one duration at most 2 x points
\* calls of a key resolve, and the burst of 2 x points calls (points at the end
\* of one window, points at the start of the next) lies within a span shorter
\* than the duration.
C19_Original ==
    /\ AtMostTwiceLimitPerDuration
    /\ \A l \in LimiterNames, k \in StorageKeys :
          \A i \in DOMAIN allowedAt[l][k], j \in DOMAIN allowedAt[l][k] :
              (/\ i <= j
               /\ BurstCount(i, j) = 2 * Limiter(l).points
               /\ BurstSpan(allowedAt[l][k], i, j) <= Limiter(l).duration) =>
                  BurstSpan(allowedAt[l][k], i, j) < Limiter(l).duration

\* C19, amended: in any span no longer than one duration at most 2 x points
\* calls of a key resolve, and in any span shorter than the duration at most
\* 2 x points - 1: the first call of a window is the one that starts it, so
\* the 2 x points calls of two windows are never less than a duration apart.
C19_BurstAcrossWindowBoundary ==
    /\ AtMostTwiceLimitPerDuration
    /\ \A l \in LimiterNames, k \in StorageKeys :
          \A i \in DOMAIN allowedAt[l][k], j \in DOMAIN allowedAt[l][k] :
              (i <= j /\ BurstSpan(allowedAt[l][k], i, j) < Limiter(l).duration) =>
                  BurstCount(i, j) <= 2 * Limiter(l).points - 1

\* A key for which 2 x points calls resolved within exactly one duration, the
\* last 2 x points - 1 of them within less.
C19_Witness ==
    \E l \in LimiterNames, k \in StorageKeys :
        \E i \in DOMAIN allowedAt[l][k], j \in DOMAIN allowedAt[l][k] :
            /\ BurstCount(i, j) = 2 * Limiter(l).points
            /\ BurstSpan(allowedAt[l][k], i, j) = Limiter(l).duration
            /\ BurstSpan(allowedAt[l][k], i + 1, j) < Limiter(l).duration
            /\ Limiter(l).points > 1

\* ------------------------------------------------------------------- C20
\* The start of the window a record stands for.
WindowStartTime(record, duration) == record.expiresAt - duration

\* A consume at t took the key's record from before to after: within the
\* record's window it added one to the same counter and left the window where
\* it was; otherwise it began a window at t whose counter, zero plus this
\* call, is one.
SharesOrRestarts(before, after, duration, t) ==
    IF /\ before # NoRecord
       /\ WindowStartTime(before, duration) <= t
       /\ t < WindowStartTime(before, duration) + duration
    THEN /\ after.value = before.value + 1
         /\ WindowStartTime(after, duration) = WindowStartTime(before, duration)
    ELSE /\ after.value = 0 + 1
         /\ WindowStartTime(after, duration) = t

\* C20: a bucket's window is fixed and lazily restarted: every consume made
\* within [windowStartTime, windowStartTime + duration) counts on the one
\* counter and leaves windowStartTime alone, and the first consume after that
\* starts the count again from zero with windowStartTime at the time of that
\* consume; the record agrees with the window the calls' times define.
C20_FixedWindowLazyRestart ==
    [][\A r \in Handlers :
         /\ (Arrived(r) /\ req'[r].pc = "perIP_consume") =>
               /\ SharesOrRestarts(perIPLimiter.storage[req'[r].ip],
                                   perIPLimiter'.storage[req'[r].ip],
                                   perIPLimiter.duration, now)
               /\ WindowStartTime(perIPLimiter'.storage[req'[r].ip],
                                  perIPLimiter.duration)
                     = window'["perIP"][req'[r].ip].start
               /\ perIPLimiter'.storage[req'[r].ip].value
                     = window'["perIP"][req'[r].ip].attempts
         /\ (req[r].pc = "perIP_consume" /\ req'[r].pc = "global_consume") =>
               /\ SharesOrRestarts(globalLimiter.storage[GlobalKey],
                                   globalLimiter'.storage[GlobalKey],
                                   globalLimiter.duration, now)
               /\ WindowStartTime(globalLimiter'.storage[GlobalKey],
                                  globalLimiter.duration)
                     = window'["global"][GlobalKey].start
               /\ globalLimiter'.storage[GlobalKey].value
                     = window'["global"][GlobalKey].attempts
      ]_vars

\* A per-IP window restarted by a consume that came later than the end of the
\* window before: its start is the time of that consume, which is not the
\* first window's start plus a multiple of the duration, and its count is one.
C20_Witness ==
    \E k \in IPs :
        /\ perIPLimiter.storage[k] # NoRecord
        /\ perIPLimiter.storage[k].value = 1
        /\ WindowStartTime(perIPLimiter.storage[k], perIPLimiter.duration) = now
        /\ Len(allowedAt["perIP"][k]) > 1
        /\ (now - allowedAt["perIP"][k][1]) % perIPLimiter.duration # 0
        /\ \E r \in Handlers : req[r].pc = "perIP_consume" /\ req[r].ip = k

\* ------------------------------------------------------------------- C21
\* The terminal outcome an answered request carries, "none" when its response
\* is none of the four.
Outcome(r) ==
    IF req[r].status = 200 /\ DOMAIN req[r].body = {"token"} THEN "ISSUED"
    ELSE IF req[r].status = 401 /\ req[r].body = Unauthorized
    THEN "REJECTED_UNAUTHORIZED"
    ELSE IF req[r].status = 429 /\ req[r].body = TooManyCalls
    THEN "REJECTED_IDENTITY_QUOTA"
    ELSE IF req[r].status = 429 /\ req[r].body = VeryBusy
    THEN "REJECTED_GLOBAL_QUOTA"
    ELSE "none"

\* The calls of the handler of r so far on the limiter or issuer of that name.
CallsOn(r, name) ==
    Cardinality({i \in DOMAIN req[r].trace : req[r].trace[i].call = name})

\* The stored count of key has been added to in this step (a consume call):
\* a record appeared, grew, or was started again.
Taken(limiter, limiterAfter, key) ==
    /\ limiterAfter.storage[key] # NoRecord
    /\ \/ limiter.storage[key] = NoRecord
       \/ limiterAfter.storage[key].value > limiter.storage[key].value
       \/ limiterAfter.storage[key].expiresAt > limiter.storage[key].expiresAt

\* An answered request carries one of the four outcomes, the one its checks
\* led to, and has taken at most one unit from each limiter.
TerminalOutcome ==
    \A r \in Handlers :
        /\ CallsOn(r, "perIP") <= 1
        /\ CallsOn(r, "global") <= 1
        /\ CallsOn(r, "issuer") <= 1
        /\ req[r].pc = "done" =>
              /\ Outcome(r) # "none"
              /\ Outcome(r) = "ISSUED" <=> FailedCheck(r) = "none"
              /\ Outcome(r) = "REJECTED_UNAUTHORIZED" <=> FailedCheck(r) = "session"
              /\ Outcome(r) = "REJECTED_IDENTITY_QUOTA" <=> FailedCheck(r) = "perIP"
              /\ Outcome(r) = "REJECTED_GLOBAL_QUOTA" <=> FailedCheck(r) = "global"
              /\ Outcome(r) = "REJECTED_UNAUTHORIZED" =>
                    CallsOn(r, "perIP") = 0 /\ CallsOn(r, "global") = 0
              /\ Outcome(r) = "REJECTED_IDENTITY_QUOTA" => CallsOn(r, "global") = 0

\* A unit is taken from a limiter only by the one call of one handler which
\* that handler records, and an answered request takes nothing more and keeps
\* its outcome until its context is gone.
OneUnitPerCall ==
    /\ \A k \in StorageKeys :
          Taken(perIPLimiter, perIPLimiter', k) =>
             /\ perIPLimiter'.storage[k].value =
                   (IF Live(perIPLimiter.storage, k, now)
                    THEN perIPLimiter.storage[k].value ELSE 0) + 1
             /\ \E r \in Handlers :
                   /\ req[r].pc = "new" /\ req'[r].ip = k
                   /\ CallsOn(r, "perIP")' = 1
                   /\ \A q \in Handlers \ {r} : req'[q] = req[q]
    /\ \A k \in StorageKeys :
          Taken(globalLimiter, globalLimiter', k) =>
             /\ k = GlobalKey
             /\ globalLimiter'.storage[k].value =
                   (IF Live(globalLimiter.storage, k, now)
                    THEN globalLimiter.storage[k].value ELSE 0) + 1
             /\ \E r \in Handlers :
                   /\ req[r].pc = "perIP_consume"
                   /\ CallsOn(r, "global")' = 1
                   /\ \A q \in Handlers \ {r} : req'[q] = req[q]
    /\ \A r \in Handlers :
          (req[r].pc = "done" /\ Stepped(r)) =>
             /\ req'[r] = NewRequest
             /\ perIPLimiter' = perIPLimiter /\ globalLimiter' = globalLimiter

\* C21: every /token request that has arrived is eventually answered, with
\* exactly one of the four terminal outcomes (issued, unauthorized, per-IP
\* quota, global quota), and on the way its handler calls consume at most once
\* on the per-IP limiter and at most once on the global limiter, each call
\* taking one unit: no step of the handler is tried again.
C21_EveryRequestReachesOneOutcome ==
    /\ \A r \in Handlers : (req[r].pc # "new") ~> (req[r].pc = "done")
    /\ []TerminalOutcome
    /\ [][OneUnitPerCall]_vars

\* The last request followed has been answered with a token, after one call
\* on each limiter, in a window of its address in which a request was rejected.
C21_Witness ==
    \E r \in Handlers :
        /\ req[r].pc = "done" /\ Outcome(r) = "ISSUED"
        /\ CallsOn(r, "perIP") = 1 /\ CallsOn(r, "global") = 1
        /\ served = budget
        /\ window["perIP"][req[r].ip].attempts > window["perIP"][req[r].ip].allowed

\* ------------------------------------------------------------------- C22
\* The address of the request handler r is serving, before or after its step.
AddressOf(r) == IF req[r].pc = "new" THEN req'[r].ip ELSE req[r].ip

\* The global limiter keeps a record under its one key only.
OneGlobalBucket ==
    \A k \in StorageKeys \ {GlobalKey} : globalLimiter.storage[k] = NoRecord

\* A step of a handler leaves the per-IP record of every other address as it
\* was; its per-IP consume leaves the global limiter as it was and its global
\* consume the per-IP limiter, the record of an address that is the global
\* key included.
BucketsIndependent ==
    \A r \in Handlers :
        Stepped(r) =>
           /\ \A k \in StorageKeys \ {AddressOf(r)} :
                 perIPLimiter'.storage[k] = perIPLimiter.storage[k]
           /\ req[r].pc = "new" => globalLimiter' = globalLimiter
           /\ req[r].pc # "new" => perIPLimiter' = perIPLimiter
           /\ (req[r].pc = "perIP_consume" /\ req'[r].pc = "global_consume") =>
                 /\ Taken(globalLimiter, globalLimiter', GlobalKey)
                 /\ \A k \in StorageKeys \ {GlobalKey} :
                       globalLimiter'.storage[k] = globalLimiter.storage[k]

\* C22: the per-IP limiter keeps one record per address and the global limiter
\* one record, under its own key, in a storage of its own: a request from one
\* address never changes the per-IP record of another address, a per-IP
\* consume never changes the global record and a global consume never changes
\* a per-IP record, also when the address of a client is the string that is
\* the global key.
C22_BucketsIndependent ==
    /\ []OneGlobalBucket
    /\ [][BucketsIndependent]_vars

\* The client whose address is the global key has been counted: its per-IP
\* record and the global record are both live and hold different counts, and
\* the other client has a per-IP record of its own.
C22_Witness ==
    /\ Live(perIPLimiter.storage, GlobalKey, now)
    /\ Live(globalLimiter.storage, GlobalKey, now)
    /\ Live(perIPLimiter.storage, Caller, now)
    /\ perIPLimiter.storage[GlobalKey].value # globalLimiter.storage[GlobalKey].value
    /\ perIPLimiter.storage[GlobalKey].value # perIPLimiter.storage[Caller].value

\* ------------------------------------------------------------------- C23
\* The End button is visible for a call that is connected and has not ended.
EndVisibleForActiveCall ==
    /\ ~endButton.hidden
    /\ call # NoCall
    /\ calls[call].state = "open"

\* The Call button is visible and enabled.
CallButtonReady == ~callButton.hidden /\ ~callButton.disabled

\* The makeCall of click h ends in this step without a call: the token
\* request was rejected or failed, or connect threw or failed.
MakeCallEndsWithoutCall(h) ==
    /\ click[h].pc \in {"fetch", "connect"}
    /\ click'[h].pc \in {"done", "died"}
    /\ calls'[h].state = "none"

\* C23 as stated: after every Call click for which microphone permission was
\* granted (its makeCall has started) the page eventually shows the End button
\* for an active call or the Call button visible and enabled; and whenever
\* makeCall ends without a call, the Call button is enabled again.
C23_Original ==
    /\ \A h \in Clicks :
          click[h].tokenRequest ~> (EndVisibleForActiveCall \/ CallButtonReady)
    /\ [][\A h \in Clicks : MakeCallEndsWithoutCall(h) => ~callButton'.disabled]_vars

\* ------------------------------------------------------------------- C24
\* The step is a token fetch of click h that resolved with a token.
TokenFetched(h) == click[h].pc = "fetch" /\ click'[h].deviceCall # "none"

\* The page has at most one Device in its life: the variable, once set, keeps
\* its Device, a Device is made only by a token fetch that finds none, and a
\* token fetch that finds one calls updateToken on it.
AtMostOneDevice ==
    /\ device # NoDevice => device' = device
    /\ \A h \in Clicks :
          TokenFetched(h) =>
             /\ device # NoDevice =>
                   click'[h].deviceCall = "updateToken" /\ device' = device
             /\ click'[h].deviceCall = "new" => (device = NoDevice /\ device' = h)
    /\ device' # device => \E h \in Clicks : TokenFetched(h)

\* C24 as stated: at most one Device is made, and it is the first token fetch
\* that resolves with a token that makes it.
C24_Original ==
    [][/\ AtMostOneDevice
       /\ \A h \in Clicks :
             (TokenFetched(h) /\ device = NoDevice) => device' # NoDevice
      ]_vars

\* C24: the page makes at most one Twilio Device in its life, whatever the
\* order in which concurrent makeCall executions resume: the first token fetch
\* that resolves with a token and whose Device constructor does not throw
\* makes it, and every later token fetch that resolves with a token calls
\* updateToken on that same Device.
C24_AtMostOneDevice ==
    [][/\ AtMostOneDevice
       /\ \A h \in Clicks :
             (TokenFetched(h) /\ device = NoDevice /\ click'[h].deviceCall # "threw")
                 => device' = h
      ]_vars

\* Two makeCall executions were under way together; the one that got its
\* token first made the Device, the other called updateToken on it.
C24_Witness ==
    \E h \in Clicks, k \in Clicks :
        /\ h # k
        /\ device = h
        /\ click[h].deviceCall = "new" /\ click[k].deviceCall = "updateToken"
        /\ click[h].pc = "connect" /\ click[k].pc = "connect"

\* ------------------------------------------------------------------- C25
\* C25 as stated: whenever a call is connected and has not ended, the End
\* button is visible, the Call button is hidden and `call` is that call; a
\* late disconnect, cancel or error event of an earlier call never resets the
\* page while a newer call is active.
C25_ActiveCallShown ==
    \A c \in Clicks :
        calls[c].state = "open" =>
           /\ ~endButton.hidden
           /\ callButton.hidden
           /\ call = c

\* ------------------------------------------------------------------- C26
\* The request that arrives in this step presents the cookie issued for its
\* address, and the session check lets it through.
ProofVerifiesOnArrival ==
    \A r \in Handlers :
        (Arrived(r) /\ IssuedFor(req'[r].cookie, req'[r].ip)) =>
           /\ req'[r].session = req'[r].ip
           /\ req'[r].status # 401
           /\ req'[r].trace[1] = Event("session", TRUE)

\* Whatever the step (a request answered either way, a cookie set for the same
\* or another address, time passing), every cookie issued so far is still the
\* issued one and still verifies.
ProofsKeepVerifying ==
    \A a \in issuedCookies :
        /\ a \in issuedCookies'
        /\ CookiesGet(CookiesSet(a)) = a

\* The earlier revision: a JWT made for an issued identity at any time up to
\* now verifies for that identity now, expired by its own claim or not, and
\* so do two JWTs made for the identity at different times.
LegacyProofsKeepVerifying ==
    \A a \in issuedCookies : \A t \in 0..now :
        /\ checkSessionCookie(ToJwtAt(a, t), a).value
        /\ LegacyToken(CookieHeader("session", ToJwtAt(a, t)), a).status = 200

\* C26: a session proof is not used up and does not run out: the cookie issued
\* for an address verifies for that address in every later /token request,
\* whatever the requests in between and their outcomes, and setting a cookie
\* again or for another address leaves it valid; in the earlier revision the
\* JWT issued for an identity verifies at any later time, and so does an
\* earlier JWT after a newer one was issued.
C26_ProofNotConsumedByUse ==
    /\ [][ProofVerifiesOnArrival /\ ProofsKeepVerifying]_vars
    /\ []LegacyProofsKeepVerifying

\* The cookie of an address has passed the session check once more, after
\* requests of the address that were let through and rejected, at a later time
\* and after a cookie was set for the other address; this request is rejected
\* by the per-IP limiter, not by the session check.  A JWT made at time 0 has
\* expired by its own claim.
C26_Witness ==
    \E r \in Handlers :
        /\ req[r].pc = "perIP_consume"
        /\ IssuedFor(req[r].cookie, req[r].ip)
        /\ req[r].session = req[r].ip
        /\ ~req[r].res.resolved
        /\ window["perIP"][req[r].ip].attempts > SmallPerIPLimit
        /\ now > 0
        /\ issuedCookies = IPs
        /\ ToJwtAt(req[r].ip, 0).exp <= now

====
